---- MODULE Spec2Model ----
(***************************************************************************)
(* Model of app.py: the image-upload service (Flask handlers in front of   *)
(* an Azure blob container).  Text values are sequences of tokens (one     *)
(* character or one opaque chunk per element) so that f-string formatting  *)
(* is concatenation and secure_filename works character by character.      *)
(***************************************************************************)
EXTENDS Integers, Sequences, FiniteSets, TLC

\* ------------------------------------------------------------------ bounds
MaxClock == 1        \* the UTC clock runs over seconds 0..MaxClock
MaxRequests == 3     \* requests handled in one run

\* ------------------------------------------------------- program constants
MAX_FILE_SIZE == 10 * 1024 * 1024
ALLOWED_CONTENT_TYPES == {"image/jpeg", "image/png", "image/gif"}
DEFAULT_CONTAINER == <<"lanternfly-images">>

\* -------------------------------------------------------------- the inputs
None == <<"<None>">>                 \* Python's None (an unset variable)
Empty == << >>                       \* the empty string

\* what os.getenv can find in the environment for one variable
UrlValues == {None, Empty, <<"https://acct.blob.core.windows.net">>}
ContainerValues == {None, Empty, <<"imgs">>}
CredValues == {None, Empty, <<"AccountName=acct;AccountKey=k">>}

\* client filenames: empty, with a space, with a directory traversal in
\* front of the same name, and one that sanitizes to nothing
Filenames ==
    { Empty,
      <<"a", " ", "b">>,
      <<".", ".", "/", "a", " ", "b">>,
      <<"$", "/">> }

\* declared content types: two allowed ones and one that is not
Mimetypes == {"image/png", "image/gif", "text/plain"}

\* an uploaded body: its bytes (abstracted to a tag) and their number
Contents ==
    { [data |-> "x", size |-> 1],
      [data |-> "y", size |-> MAX_FILE_SIZE],
      [data |-> "z", size |-> MAX_FILE_SIZE + 1] }

NoFile == [hasFile |-> FALSE, filename |-> Empty, mimetype |-> "",
           content |-> [data |-> "", size |-> 0]]
UploadRequests ==
    {NoFile} \cup
    [hasFile : {TRUE}, filename : Filenames, mimetype : Mimetypes,
     content : Contents]

\* --------------------------------------------------------------- the state
VARIABLES
    env,                              \* the process environment
    STORAGE_ACCOUNT_URL,              \* module globals set from it
    IMAGES_CONTAINER,
    AZURE_STORAGE_CONNECTION_STRING,
    phase,         \* "config", "clients", "bootstrap", "serving", "crashed"
    gatewayUp,     \* whether a Storage Gateway call made now succeeds
    blobs,         \* the container: a set of [name, data, content_type]
    now,           \* datetime.utcnow(), in whole seconds
    handled,       \* number of requests handled
    n200,          \* number of uploads answered 200
    req,           \* the request handled last
    resp,          \* its response
    calls,         \* the Storage Gateway calls made by the last step
    measured,      \* whether its handler measured the size (seek/tell)
    repeat         \* history: the last request re-sent the upload answered
                   \* 200 just before it (same filename, same content type,
                   \* same UTC second) and reached the gateway while it was up

vars == <<env, STORAGE_ACCOUNT_URL, IMAGES_CONTAINER,
          AZURE_STORAGE_CONNECTION_STRING, phase, gatewayUp,
          blobs, now, handled, n200, req, resp, calls, measured,
          repeat>>

startupVars == <<STORAGE_ACCOUNT_URL, IMAGES_CONTAINER,
                 AZURE_STORAGE_CONNECTION_STRING>>
requestVars == <<blobs, handled, n200, req, resp, calls, measured, repeat>>

NoRequest == [kind |-> "none", file |-> NoFile]
NoResponse == [status |-> 0, ok |-> FALSE, error |-> Empty, url |-> Empty,
               gallery |-> << >>]

Init ==
    /\ env \in [url : UrlValues, container : ContainerValues, cred : CredValues]
    /\ STORAGE_ACCOUNT_URL = None
    /\ IMAGES_CONTAINER = None
    /\ AZURE_STORAGE_CONNECTION_STRING = None
    /\ phase = "config"
    /\ gatewayUp \in BOOLEAN
    /\ blobs = {}
    /\ now = 0
    /\ handled = 0
    /\ n200 = 0
    /\ req = NoRequest
    /\ resp = NoResponse
    /\ calls = << >>
    /\ measured = FALSE
    /\ repeat = FALSE

\* ----------------------------------------------------------------- startup
\* os.getenv(name, default)
getenv(value, default) == IF value = None THEN default ELSE value

\* `not s` for a str or None
Falsy(s) == s = None \/ s = Empty

\* variant: the check of STORAGE_ACCOUNT_URL left out
ConfigOk_CredOnly(cred, url) == ~Falsy(cred)

\* the safety check for missing configuration
ConfigOk(cred, url) == ~Falsy(cred) /\ ~Falsy(url)

LoadConfig ==
    /\ phase = "config"
    /\ STORAGE_ACCOUNT_URL' = getenv(env.url, None)
    /\ IMAGES_CONTAINER' = getenv(env.container, DEFAULT_CONTAINER)
    /\ AZURE_STORAGE_CONNECTION_STRING' = getenv(env.cred, None)
    /\ phase' = IF ConfigOk(AZURE_STORAGE_CONNECTION_STRING', STORAGE_ACCOUNT_URL')
                THEN "clients" ELSE "crashed"
    /\ UNCHANGED <<env, gatewayUp, now>>
    /\ UNCHANGED requestVars

\* bsc.get_container_client(name): ContainerClient raises ValueError
\* ("Please specify a container name.") for an empty name
ContainerClientBuilt(name) == name # Empty

\* BlobServiceClient.from_connection_string parses the connection string and
\* raises on a malformed one; an exception here is uncaught (the import fails).
InitClients ==
    /\ phase = "clients"
    /\ \E parsed \in BOOLEAN :
          phase' = IF parsed /\ ContainerClientBuilt(IMAGES_CONTAINER)
                   THEN "bootstrap" ELSE "crashed"
    /\ UNCHANGED <<env, gatewayUp, now>>
    /\ UNCHANGED startupVars
    /\ UNCHANGED requestVars

\* one Storage Gateway call: the operation and how it ended
\* ("ok", "exists" for create_container on an existing container, "error")
Call(op, result) == [op |-> op, result |-> result]

\* whether the try/except around create_container swallows an outcome
Swallowed(result) == TRUE

\* cc.create_container(public_access="blob") in try/except Exception: pass
Bootstrap ==
    /\ phase = "bootstrap"
    /\ \E result \in IF gatewayUp THEN {"ok", "exists"} ELSE {"error"} :
          /\ calls' = <<Call("create_container", result)>>
          /\ phase' = IF result = "ok" \/ Swallowed(result)
                      THEN "serving" ELSE "crashed"
    /\ UNCHANGED <<env, gatewayUp, now>>
    /\ UNCHANGED startupVars
    /\ UNCHANGED <<blobs, handled, n200, req, resp, measured, repeat>>

\* ------------------------------------------------------------- environment
Tick ==
    /\ now < MaxClock
    /\ now' = now + 1
    /\ UNCHANGED <<env, phase, gatewayUp>>
    /\ UNCHANGED startupVars
    /\ UNCHANGED requestVars

GatewayChange ==
    /\ gatewayUp' = ~gatewayUp
    /\ UNCHANGED <<env, phase, now>>
    /\ UNCHANGED startupVars
    /\ UNCHANGED requestVars

\* ------------------------------------------------------- validation, naming
\* werkzeug.utils.secure_filename: path separators become spaces, the words
\* are joined by "_", characters outside [A-Za-z0-9_.-] are dropped, and
\* leading and trailing "." and "_" are stripped.
Whitespace == {" "}
AsciiSafe == {"a", "b", "c", "0", "1", "_", ".", "-"}

ReplaceSep(s) == [i \in 1..Len(s) |-> IF s[i] = "/" THEN " " ELSE s[i]]

\* "_".join(s.split())
RECURSIVE JoinWords(_, _, _)
JoinWords(s, acc, gap) ==
    IF s = << >> THEN acc
    ELSE IF Head(s) \in Whitespace THEN JoinWords(Tail(s), acc, TRUE)
    ELSE IF gap /\ acc # << >>
         THEN JoinWords(Tail(s), acc \o <<"_", Head(s)>>, FALSE)
         ELSE JoinWords(Tail(s), Append(acc, Head(s)), FALSE)

IsSafeChar(c) == c \in AsciiSafe
AsciiStrip(s) == SelectSeq(s, IsSafeChar)

RECURSIVE LStrip(_, _)
LStrip(s, cs) ==
    IF s # << >> /\ Head(s) \in cs THEN LStrip(Tail(s), cs) ELSE s
RECURSIVE RStrip(_, _)
RStrip(s, cs) ==
    IF s # << >> /\ s[Len(s)] \in cs
    THEN RStrip(SubSeq(s, 1, Len(s) - 1), cs) ELSE s

secure_filename(filename) ==
    LET joined == JoinWords(ReplaceSep(filename), << >>, FALSE)
    IN  RStrip(LStrip(AsciiStrip(joined), {".", "_"}), {".", "_"})

\* datetime.utcnow().strftime("%Y%m%dT%H%M%S"), the clock counting seconds
\* from 2024-01-02T03:04:00Z
strftime(t) == <<"20240102T0304", IF t < 10 THEN "0" ELSE "", ToString(t % 60)>>

\* variant: the client's filename used as it came
blob_name_Raw(t, filename) == strftime(t) \o <<"-">> \o filename

\* blob_name = f"{timestamp}-{safe_name}"
blob_name(t, filename) == strftime(t) \o <<"-">> \o secure_filename(filename)

\* blob_url = f"{STORAGE_ACCOUNT_URL}/{IMAGES_CONTAINER}/{blob_name}"
blob_url(name) ==
    STORAGE_ACCOUNT_URL \o <<"/">> \o IMAGES_CONTAINER \o <<"/">> \o name

\* variant: the size limit left out
Validate_NoSize(f) ==
    IF ~f.hasFile THEN "Missing file field"
    ELSE IF f.filename = Empty THEN "Empty filename"
    ELSE IF f.mimetype \notin ALLOWED_CONTENT_TYPES
         THEN "Unsupported content type: " \o f.mimetype
    ELSE ""

\* variant: the size limit checked before the content type
Validate_SizeFirst(f) ==
    IF ~f.hasFile THEN "Missing file field"
    ELSE IF f.filename = Empty THEN "Empty filename"
    ELSE IF f.content.size > MAX_FILE_SIZE THEN "File too large (max 10 MB)"
    ELSE IF f.mimetype \notin ALLOWED_CONTENT_TYPES
         THEN "Unsupported content type: " \o f.mimetype
    ELSE ""

\* the checks of upload(), in the handler's order; "" when all pass
Validate(f) ==
    IF ~f.hasFile THEN "Missing file field"
    ELSE IF f.filename = Empty THEN "Empty filename"
    ELSE IF f.mimetype \notin ALLOWED_CONTENT_TYPES
         THEN "Unsupported content type: " \o f.mimetype
    ELSE IF f.content.size > MAX_FILE_SIZE THEN "File too large (max 10 MB)"
    ELSE ""

\* whether upload() reaches f.seek/f.tell
Measures(f) ==
    f.hasFile /\ f.filename # Empty /\ f.mimetype \in ALLOWED_CONTENT_TYPES

\* ------------------------------------------------------- the Storage Gateway
GatewayError == <<"ServiceRequestError">>
ExistsError == <<"ResourceExistsError">>

\* variant: upload_blob called without overwrite
Overwrite_Off == FALSE

\* the overwrite argument upload() passes to upload_blob
Overwrite == TRUE

\* ContainerClient.upload_blob: the call's error ("" when it succeeds)
UploadError(up, name, overwrite) ==
    IF ~up THEN GatewayError
    ELSE IF ~overwrite /\ \E b \in blobs : b.name = name THEN ExistsError
    ELSE Empty

\* ... and the container after a successful call
UploadBlob(name, data, content_type) ==
    {b \in blobs : b.name # name}
        \cup {[name |-> name, data |-> data, content_type |-> content_type]}

\* variant: a failed call tried a second time
Attempts_Retry(op, err) ==
    IF err = Empty THEN <<Call(op, "ok")>>
    ELSE <<Call(op, "error"), Call(op, "error")>>

\* the gateway calls a handler makes for one storage operation
Attempts(op, err) == <<Call(op, IF err = Empty THEN "ok" ELSE "error")>>

\* ContainerClient.list_blobs: the names, in the gateway's (lexical) order
RECURSIVE Listing(_)
Listing(bs) ==
    IF bs = {} THEN << >>
    ELSE LET b == CHOOSE x \in bs : TRUE
         IN  <<b.name>> \o Listing(bs \ {b})

\* ------------------------------------------------------------ the handlers
Serving == phase = "serving" /\ handled < MaxRequests

Json(status, ok, error, url, gallery) ==
    [status |-> status, ok |-> ok, error |-> error, url |-> url,
     gallery |-> gallery]

\* GET /
Index ==
    /\ Serving
    /\ req' = [kind |-> "index", file |-> NoFile]
    /\ resp' = Json(200, TRUE, Empty, Empty, << >>)
    /\ calls' = << >>
    /\ measured' = FALSE
    /\ repeat' = FALSE
    /\ handled' = handled + 1
    /\ UNCHANGED <<env, phase, gatewayUp, now, blobs, n200>>
    /\ UNCHANGED startupVars

\* variant: health() probing the gateway
HealthCalls_Probe(up) == <<Call("list_blobs", IF up THEN "ok" ELSE "error")>>

\* the gateway calls health() makes
HealthCalls(up) == << >>

\* GET /api/v1/health
Health ==
    /\ Serving
    /\ req' = [kind |-> "health", file |-> NoFile]
    /\ calls' = HealthCalls(gatewayUp)
    /\ resp' = Json(200, TRUE, Empty, Empty, << >>)
    /\ measured' = FALSE
    /\ repeat' = FALSE
    /\ handled' = handled + 1
    /\ UNCHANGED <<env, phase, gatewayUp, now, blobs, n200>>
    /\ UNCHANGED startupVars

\* POST /api/v1/upload
Upload(f) ==
    /\ Serving
    /\ req' = [kind |-> "upload", file |-> f]
    /\ measured' = Measures(f)
    /\ handled' = handled + 1
    /\ repeat' = ( /\ req.kind = "upload" /\ resp.status = 200
                   /\ req.file.filename = f.filename
                   /\ req.file.mimetype = f.mimetype
                   /\ resp.url = blob_url(strftime(now) \o <<"-">>
                                              \o secure_filename(f.filename))
                   /\ Validate(f) = "" /\ gatewayUp )
    /\ LET invalid == Validate(f)
           name == blob_name(now, f.filename)
           err == UploadError(gatewayUp, name, Overwrite)
       IN  IF invalid # ""
           THEN /\ resp' = Json(400, FALSE, <<invalid>>, Empty, << >>)
                /\ calls' = << >>
                /\ UNCHANGED <<blobs, n200>>
           ELSE /\ calls' = Attempts("upload_blob", err)
                /\ IF err = Empty
                   THEN /\ blobs' = UploadBlob(name, f.content.data, f.mimetype)
                        /\ resp' = Json(200, TRUE, Empty, blob_url(name), << >>)
                        /\ n200' = n200 + 1
                   ELSE /\ resp' = Json(500, FALSE, err, Empty, << >>)
                        /\ UNCHANGED <<blobs, n200>>
    /\ UNCHANGED <<env, phase, gatewayUp, now>>
    /\ UNCHANGED startupVars

\* GET /api/v1/gallery
Gallery ==
    /\ Serving
    /\ req' = [kind |-> "gallery", file |-> NoFile]
    /\ measured' = FALSE
    /\ repeat' = FALSE
    /\ handled' = handled + 1
    /\ LET err == IF gatewayUp THEN Empty ELSE GatewayError
           names == Listing(blobs)
       IN  /\ calls' = Attempts("list_blobs", err)
           /\ resp' = IF err = Empty
                      THEN Json(200, TRUE, Empty, Empty,
                                [i \in 1..Len(names) |-> blob_url(names[i])])
                      ELSE Json(500, FALSE, err, Empty, << >>)
    /\ UNCHANGED <<env, phase, gatewayUp, now, blobs, n200>>
    /\ UNCHANGED startupVars

Next ==
    \/ LoadConfig
    \/ InitClients
    \/ Bootstrap
    \/ Tick
    \/ GatewayChange
    \/ Index
    \/ Health
    \/ \E f \in UploadRequests : Upload(f)
    \/ Gallery

Spec == Init /\ [][Next]_vars

\* ------------------------------------------------------------- properties
UploadStep == handled' = handled + 1 /\ req'.kind = "upload"

\* the conditions of a valid upload, as the interface states them
PassesValidation(f) ==
    /\ f.hasFile
    /\ f.filename # Empty
    /\ f.mimetype \in {"image/jpeg", "image/png", "image/gif"}
    /\ f.content.size <= 10 * 1024 * 1024

Failed(cs) == \E i \in 1..Len(cs) : cs[i].result = "error"

\* C1: an upload with no file part, an empty filename, a content type
\* outside the three image types or more than 10 MiB of content is answered
\* 400 with ok=false, makes no gateway call and leaves the container as it was.
C1_InvalidRejected ==
    [][ (UploadStep /\ ~PassesValidation(req'.file))
          => /\ resp'.status = 400
             /\ resp'.ok = FALSE
             /\ calls' = << >>
             /\ blobs' = blobs ]_vars

\* an oversized upload of an allowed type was refused with objects stored
C1_Witness ==
    /\ req.kind = "upload"
    /\ req.file.hasFile /\ req.file.filename # Empty
    /\ req.file.mimetype = "image/png"
    /\ req.file.content.size > 10 * 1024 * 1024
    /\ resp.status = 400
    /\ blobs # {}

\* C2: a valid upload whose gateway call succeeds leaves an object under
\* "<UTC timestamp>-<sanitized filename>" with the request's content and
\* declared content type, and is answered 200, ok=true, with the url
\* "<base URL>/<container>/<key>".
C2_StoredUnderKey ==
    [][ (UploadStep /\ PassesValidation(req'.file)
           /\ calls' # << >> /\ ~Failed(calls'))
          => LET key == strftime(now) \o <<"-">>
                            \o secure_filename(req'.file.filename)
             IN  /\ [name |-> key, data |-> req'.file.content.data,
                     content_type |-> req'.file.mimetype] \in blobs'
                 /\ resp'.status = 200
                 /\ resp'.ok = TRUE
                 /\ resp'.url = STORAGE_ACCOUNT_URL \o <<"/">>
                                  \o IMAGES_CONTAINER \o <<"/">> \o key ]_vars

\* a filename that sanitization changes was stored and answered 200
C2_Witness ==
    /\ req.kind = "upload"
    /\ req.file.filename = <<".", ".", "/", "a", " ", "b">>
    /\ resp.status = 200
    /\ \E b \in blobs : /\ b.data = req.file.content.data
                        /\ resp.url = blob_url(b.name)

\* C3: from an empty container, after N uploads answered 200, a gallery
\* listing whose gateway call succeeds is answered 200 with exactly N URLs,
\* each "<base URL>/<container>/<key>" of a stored key.
C3_GalleryCountsUploads ==
    (req.kind = "gallery" /\ ~Failed(calls))
      => /\ resp.status = 200
         /\ Len(resp.gallery) = n200
         /\ \A i \in 1..Len(resp.gallery) :
               \E b \in blobs : resp.gallery[i] = blob_url(b.name)

C5_HealthAlwaysOk ==
    req.kind = "health"
      => /\ resp.status = 200
         /\ resp.ok = TRUE
         /\ calls = << >>

\* health answered while the gateway is down
C5_Witness == req.kind = "health" /\ ~gatewayUp /\ resp.status = 200

\* C6: when the gateway call of an upload or of a gallery listing fails,
\* the handler has made exactly one attempt, answers 500 with ok=false and
\* the failure's message, and the process is still serving.
C6_FailureSurfacedOnce ==
    (req.kind \in {"upload", "gallery"} /\ Failed(calls))
      => /\ Len(calls) = 1
         /\ resp.status = 500
         /\ resp.ok = FALSE
         /\ resp.error = GatewayError
         /\ phase = "serving"

\* a valid upload met a failing gateway
C6_Witness ==
    /\ req.kind = "upload" /\ PassesValidation(req.file)
    /\ Failed(calls)
    /\ resp.status = 500

CreateResult ==
    IF handled = 0 /\ calls # << >> THEN calls[1].result ELSE "none"

\* C7: at startup an "already exists" failure of create_container is
\* swallowed and the process serves; any other failure of it is a startup
\* crash and the process never serves.
C7_OtherFailureCrashes ==
    /\ CreateResult = "exists" => phase = "serving"
    /\ CreateResult = "error" => phase = "crashed"

\* C8 as stated: serving only if base URL, container name and credential
\* are all present and non-empty; otherwise startup is refused.
C8_AllThreeRequired ==
    LET complete == ~Falsy(env.url) /\ ~Falsy(env.container) /\ ~Falsy(env.cred)
    IN  /\ phase = "serving" => complete
        /\ (~complete /\ phase # "config") => phase = "crashed"

\* C8 amended: serving only if base URL and credential are present and
\* non-empty, and startup is refused when either is absent or empty; an
\* absent container name is replaced by "lanternfly-images".
C8_UrlAndCredentialRequired ==
    LET complete == ~Falsy(env.url) /\ ~Falsy(env.cred)
    IN  /\ phase = "serving" => complete
        /\ (~complete /\ phase # "config") => phase = "crashed"
        /\ (phase # "config" /\ env.container = None)
              => IMAGES_CONTAINER = <<"lanternfly-images">>

\* serving with no container name in the environment
C8_Witness ==
    /\ phase = "serving"
    /\ env.container = None
    /\ req.kind = "upload" /\ resp.status = 200

\* C9: an object stored under a key stays in the container with the same
\* content and content type.
C9_StoredObjectsImmutable ==
    [][ \A b \in blobs : b \in blobs' ]_vars

\* C10: the 400 of an upload carries the error of the first failing check
\* in the order file part, filename, content type, size, and the size of a
\* request with a disallowed content type is not measured.
C10_FirstFailingCheck ==
    LET f == req.file
        badType == f.mimetype \notin {"image/jpeg", "image/png", "image/gif"}
    IN  (req.kind = "upload" /\ ~PassesValidation(f))
          => /\ resp.status = 400
             /\ resp.error =
                  << IF ~f.hasFile THEN "Missing file field"
                     ELSE IF f.filename = Empty THEN "Empty filename"
                     ELSE IF badType
                          THEN "Unsupported content type: " \o f.mimetype
                     ELSE "File too large (max 10 MB)" >>
             /\ (f.hasFile /\ badType) => ~measured

\* an oversized upload of a disallowed type was refused for its type
C10_Witness ==
    /\ req.kind = "upload"
    /\ req.file.hasFile /\ req.file.filename # Empty
    /\ req.file.mimetype = "text/plain"
    /\ req.file.content.size > 10 * 1024 * 1024
    /\ resp.status = 400
    /\ resp.error = <<"Unsupported content type: text/plain">>
    /\ ~measured

====
